---- MODULE Spec2Model ----
(***************************************************************************)
(* State-machine model of main.py: the command-line entry point that loads *)
(* a DetectModel and either trains it (train) or evaluates a checkpoint    *)
(* (predict).  One process run is modelled from the point where the        *)
(* arguments have been parsed up to its exit.                              *)
(*                                                                         *)
(* The environment of a run is its arguments, the current working          *)
(* directory, the number of records of the input file and the checkpoint   *)
(* files already on disk.  Tensors are abstracted to what the claims       *)
(* observe: the hidden-state buffer is "zero" or "dirty", the parameters   *)
(* are the number of optimizer steps applied to them, a batch of labels    *)
(* and predictions is a pair of 0/1 sequences.                             *)
(***************************************************************************)
EXTENDS Integers, Sequences, FiniteSets, TLC

VARIABLES
    args,            \* parsed arguments: test, logdir, epoch, batch_size
    cwd,             \* current working directory of the process
    nrecords,        \* len(dataset): records of the input file
    fs,              \* checkpoint files on disk
    pc,              \* position of the process
    uncaught,        \* name of the exception that ended the process, or "none"
    exitCode,        \* exit status, -1 while running
    stdout,          \* lines printed with print()
    ioLog,           \* data-loading steps performed, in order
    openedPath,      \* path handed to torch.load, None if none was
    params,          \* model parameters (number of updates applied)
    optState,        \* optimizer state (number of steps taken)
    gradEnabled,     \* torch's gradient mode
    outRequiresGrad, \* whether the last forward pass recorded a graph
    h0,              \* contents of the hidden-state buffer
    h0Allocs,        \* how many times the buffer was allocated
    grads,           \* batches whose gradients are accumulated in .grad
    gradNorm,        \* L2 norm of the accumulated gradients
    epoch,           \* loop variable of train's outer loop
    step,            \* loop variable of the inner loops
    optSteps,        \* optimizer.step() calls of this run
    batchLog,        \* operations performed on the current training batch
    written,         \* paths torch.save wrote in this run
    seen,            \* <<label, prediction>> of every record predict processed
    true_acc,        \* predict's accumulator for label 1
    false_acc        \* predict's accumulator for label 0

vars == <<args, cwd, nrecords, fs, pc, uncaught, exitCode, stdout, ioLog,
          openedPath, params, optState, gradEnabled, outRequiresGrad, h0,
          h0Allocs, grads, gradNorm, epoch, step, optSteps, batchLog, written,
          seen, true_acc, false_acc>>

----------------------------------------------------------------------------
(* Bounds of the model. *)

MaxEpoch == 2
MaxN == 4
MaxBatch == 2

(* max_norm of clip_grad_norm_. *)
MAX_NORM == 5

----------------------------------------------------------------------------
(* Paths.  A path is absolute or relative and has a list of components. *)

None == [none |-> TRUE]

Abs(parts) == [abs |-> TRUE, parts |-> parts]
Rel(parts) == [abs |-> FALSE, parts |-> parts]

(* os.path.join(a, b) *)
Join(a, b) == IF b.abs THEN b ELSE [abs |-> a.abs, parts |-> a.parts \o b.parts]

(* What the operating system opens for path p in working directory d. *)
Resolve(d, p) == Join(d, p)

(* os.path.dirname(os.path.abspath(__file__)) *)
ScriptDir == Abs(<<"app">>)

WorkDirs == {ScriptDir, Abs(<<"home">>)}
LogDirs == {None, Rel(<<"logs">>), Abs(<<"ckpt">>)}

(* "{}.ckpt".format(epoch+1) *)
SaveNameByEpoch(e) == ToString(e) \o ".ckpt"
SaveName(e) == ToString(e + 1) \o ".ckpt"

TestNames == {None} \cup {Rel(<<SaveName(e)>>) : e \in 0 .. MaxEpoch - 1}

(* os.path.join(path, "{}.ckpt".format(epoch+1)) with
   path = os.path.join(os.path.dirname(os.path.abspath(__file__)), args.logdir) *)
SavePath(logdir, e) == Join(Join(ScriptDir, logdir), Rel(<<SaveName(e)>>))

(* os.path.join(args.logdir, args.test), as the operating system opens it *)
LoadPath(d, logdir, test) == Resolve(d, Join(logdir, test))

(* The state dictionary torch.save writes. *)
Checkpoint(path, e, p, o) ==
    [path |-> path, epoch |-> e, state_dict |-> p, optimizer |-> o]

Exists(files, path) == \E f \in files : f.path = path
FileAt(files, path) == CHOOSE f \in files : f.path = path
WriteFile(files, f) == {g \in files : g.path # f.path} \cup {f}

(* The files an earlier training run of E epochs, one batch each, left under
   --logdir D. *)
PriorRun(D, E) == {Checkpoint(SavePath(D, e), e, e + 1, e + 1) : e \in 0 .. E - 1}

(* DataLoader(dataset, batch_size, drop_last=True): batches per pass *)
NumBatches(n, b) == n \div b

----------------------------------------------------------------------------
(* The state of a process whose arguments have been parsed. *)

Init ==
    /\ args \in [test : TestNames, logdir : LogDirs,
                 epoch : 0 .. MaxEpoch, batch_size : 1 .. MaxBatch]
    /\ cwd \in WorkDirs
    /\ nrecords \in 0 .. MaxN
    /\ fs \in {{}} \cup {PriorRun(D, MaxEpoch) : D \in LogDirs \ {None}}
    /\ pc = "load_data"
    /\ uncaught = "none"
    /\ exitCode = -1
    /\ stdout = <<>>
    /\ ioLog = <<>>
    /\ openedPath = None
    /\ params = 0
    /\ optState = 0
    /\ gradEnabled = TRUE
    /\ outRequiresGrad = FALSE
    /\ h0 = "unallocated"
    /\ h0Allocs = 0
    /\ grads = {}
    /\ gradNorm = 0
    /\ epoch = 0
    /\ step = 0
    /\ optSteps = 0
    /\ batchLog = <<>>
    /\ written = {}
    /\ seen = <<>>
    /\ true_acc = <<>>
    /\ false_acc = <<>>

(* An exception nobody catches ends the process with status 1. *)
Raise(name) ==
    /\ pc' = "crashed"
    /\ uncaught' = name
    /\ exitCode' = 1

----------------------------------------------------------------------------
(* load_model *)

(* topic_feature.load(args.topic_feature); the input file is read; SeqDataset *)
LoadData ==
    /\ pc = "load_data"
    /\ ioLog' = ioLog \o <<"topic_feature", "input">>
    /\ pc' = "build_model"
    /\ UNCHANGED <<args, cwd, nrecords, fs, uncaught, exitCode, stdout,
                   openedPath, params, optState, gradEnabled, outRequiresGrad,
                   h0, h0Allocs, grads, gradNorm, epoch, step, optSteps,
                   batchLog, written, seen, true_acc, false_acc>>

(* device selection and DetectModel(...): freshly initialised parameters *)
BuildModel ==
    /\ pc = "build_model"
    /\ params' = 0
    /\ pc' = "load_checkpoint"
    /\ UNCHANGED <<args, cwd, nrecords, fs, uncaught, exitCode, stdout, ioLog,
                   openedPath, optState, gradEnabled, outRequiresGrad, h0,
                   h0Allocs, grads, gradNorm, epoch, step, optSteps, batchLog,
                   written, seen, true_acc, false_acc>>

(* if args.test: torch.load(os.path.join(args.logdir, args.test)),
   load_state_dict, and only then the test of args.logdir *)
LoadCheckpoint ==
    /\ pc = "load_checkpoint"
    /\ IF args.test = None
       THEN /\ pc' = "make_loader"
            /\ UNCHANGED <<uncaught, exitCode, stdout, ioLog, openedPath, params>>
       ELSE IF args.logdir = None
       THEN \* os.path.join(None, ...) raises TypeError
            /\ Raise("TypeError")
            /\ UNCHANGED <<stdout, ioLog, openedPath, params>>
       ELSE LET p == LoadPath(cwd, args.logdir, args.test) IN
            /\ ioLog' = Append(ioLog, "checkpoint")
            /\ openedPath' = p
            /\ IF ~Exists(fs, p)
               THEN /\ Raise("FileNotFoundError")
                    /\ UNCHANGED <<stdout, params>>
               ELSE /\ params' = FileAt(fs, p).state_dict
                    /\ IF args.logdir = None
                       THEN /\ stdout' = Append(stdout, "[-] No log directory option")
                            /\ pc' = "exited"
                            /\ exitCode' = 1
                            /\ UNCHANGED uncaught
                       ELSE /\ pc' = "make_loader"
                            /\ UNCHANGED <<uncaught, exitCode, stdout>>
    /\ UNCHANGED <<args, cwd, nrecords, fs, optState, gradEnabled,
                   outRequiresGrad, h0, h0Allocs, grads, gradNorm, epoch, step,
                   optSteps, batchLog, written, seen, true_acc, false_acc>>

(* model.to(device); DataLoader(..., drop_last=True); return *)
MakeLoader ==
    /\ pc = "make_loader"
    /\ pc' = "dispatch"
    /\ UNCHANGED <<args, cwd, nrecords, fs, uncaught, exitCode, stdout, ioLog,
                   openedPath, params, optState, gradEnabled, outRequiresGrad,
                   h0, h0Allocs, grads, gradNorm, epoch, step, optSteps,
                   batchLog, written, seen, true_acc, false_acc>>

(* __main__ after load_model returned *)
Dispatch ==
    /\ pc = "dispatch"
    /\ IF args.test # None
       THEN IF args.logdir = None
            THEN /\ stdout' = Append(stdout, "[-] No log directory option")
                 /\ pc' = "exited"
                 /\ exitCode' = 1
            ELSE /\ pc' = "predict"
                 /\ UNCHANGED <<stdout, exitCode>>
       ELSE /\ pc' = "train"
            /\ UNCHANGED <<stdout, exitCode>>
    /\ UNCHANGED <<args, cwd, nrecords, fs, uncaught, ioLog, openedPath, params,
                   optState, gradEnabled, outRequiresGrad, h0, h0Allocs, grads,
                   gradNorm, epoch, step, optSteps, batchLog, written, seen,
                   true_acc, false_acc>>

----------------------------------------------------------------------------
(* predict *)

RECURSIVE Sum(_)
Sum(s) == IF s = <<>> THEN 0 ELSE Head(s) + Sum(Tail(s))

(* The body of "for o, t in zip(output.tolist(), labels.tolist())" on the
   pair of accumulators. *)
AccountSameBit(acc, o, t) ==
    IF t = 1
    THEN [acc EXCEPT !.true = Append(@, o)]
    ELSE IF t = 0
    THEN [acc EXCEPT !.false = Append(@, o)]
    ELSE acc

Account(acc, o, t) ==
    IF t = 1
    THEN [acc EXCEPT !.true = Append(@, o)]
    ELSE IF t = 0
    THEN IF o = 1
         THEN [acc EXCEPT !.false = Append(@, 0)]
         ELSE IF o = 0
         THEN [acc EXCEPT !.false = Append(@, 1)]
         ELSE acc
    ELSE acc

RECURSIVE AccountBatch(_, _, _)
AccountBatch(acc, output, labels) ==
    IF output = <<>> \/ labels = <<>>
    THEN acc
    ELSE AccountBatch(Account(acc, Head(output), Head(labels)),
                      Tail(output), Tail(labels))

RECURSIVE Zip(_, _)
Zip(labels, output) ==
    IF output = <<>> \/ labels = <<>>
    THEN <<>>
    ELSE <<<<Head(labels), Head(output)>>>> \o Zip(Tail(labels), Tail(output))

(* "<name> acc: {}/{} ({:,})".format(sum, len, sum / len) *)
AccLine(name, acc) == [name |-> name, sum |-> Sum(acc), len |-> Len(acc)]

(* What the forward pass leaves in the hidden-state buffer it was given. *)
ForwardH0 == {h0, "dirty"}

(* h0 = torch.zeros(...); true_acc = []; false_acc = [] *)
PredictInit ==
    /\ pc = "predict"
    /\ h0' = "zero"
    /\ h0Allocs' = h0Allocs + 1
    /\ true_acc' = <<>>
    /\ false_acc' = <<>>
    /\ step' = 0
    /\ pc' = "predict_loop"
    /\ UNCHANGED <<args, cwd, nrecords, fs, uncaught, exitCode, stdout, ioLog,
                   openedPath, params, optState, gradEnabled, outRequiresGrad,
                   grads, gradNorm, epoch, optSteps, batchLog, written, seen>>

(* One iteration of "for step, (sequences, tweets, labels) in
   enumerate(dataloader)": forward pass, softmax, argmax, accounting. *)
PredictBatch ==
    /\ pc = "predict_loop"
    /\ step < NumBatches(nrecords, args.batch_size)
    /\ \E labels \in [1 .. args.batch_size -> {0, 1}],
          output \in [1 .. args.batch_size -> {0, 1}] :
          LET acc == AccountBatch([true |-> true_acc, false |-> false_acc],
                                  output, labels)
          IN /\ true_acc' = acc.true
             /\ false_acc' = acc.false
             /\ seen' = seen \o Zip(labels, output)
    /\ outRequiresGrad' = gradEnabled
    /\ h0' \in ForwardH0
    /\ step' = step + 1
    /\ UNCHANGED <<args, cwd, nrecords, fs, pc, uncaught, exitCode, stdout,
                   ioLog, openedPath, params, optState, gradEnabled, h0Allocs,
                   grads, gradNorm, epoch, optSteps, batchLog, written>>

(* The three print calls after the loop; each divides by a length. *)
PredictReport ==
    /\ pc = "predict_loop"
    /\ step >= NumBatches(nrecords, args.batch_size)
    /\ IF Len(true_acc) = 0
       THEN /\ Raise("ZeroDivisionError")
            /\ UNCHANGED stdout
       ELSE IF Len(false_acc) = 0
       THEN /\ Raise("ZeroDivisionError")
            /\ stdout' = Append(stdout, AccLine("True", true_acc))
       ELSE /\ stdout' = stdout \o <<AccLine("True", true_acc),
                                     AccLine("False", false_acc),
                                     AccLine("Total", true_acc \o false_acc)>>
            /\ pc' = "exited"
            /\ exitCode' = 0
            /\ UNCHANGED uncaught
    /\ UNCHANGED <<args, cwd, nrecords, fs, ioLog, openedPath, params, optState,
                   gradEnabled, outRequiresGrad, h0, h0Allocs, grads, gradNorm,
                   epoch, step, optSteps, batchLog, written, seen, true_acc,
                   false_acc>>

----------------------------------------------------------------------------
(* train *)

(* Gradient norms a backward pass may produce: none, at the limit, above it. *)
GradNorms == {0, MAX_NORM, MAX_NORM + 1}

(* clip_grad_norm_(parameters, max_norm): the norm of the scaled gradients *)
Clip(norm, max_norm) == IF norm > max_norm THEN max_norm ELSE norm

TrainLoopPcs == {"fetch", "zero_grad", "zero_h0", "forward", "loss",
                 "backward", "clip", "opt_step", "checkpoint"}

(* optimizer = Adam(...); criterion; h0 = torch.zeros(...) *)
TrainInit ==
    /\ pc = "train"
    /\ optState' = 0
    /\ h0' = "zero"
    /\ h0Allocs' = h0Allocs + 1
    /\ epoch' = 0
    /\ pc' = "epoch"
    /\ UNCHANGED <<args, cwd, nrecords, fs, uncaught, exitCode, stdout, ioLog,
                   openedPath, params, gradEnabled, outRequiresGrad, grads,
                   gradNorm, step, optSteps, batchLog, written, seen, true_acc,
                   false_acc>>

(* for epoch in range(args.epoch): the next epoch begins, or train returns
   and the process ends *)
TrainEpoch ==
    /\ pc = "epoch"
    /\ IF epoch < args.epoch
       THEN /\ step' = 0
            /\ pc' = "fetch"
            /\ UNCHANGED exitCode
       ELSE /\ pc' = "exited"
            /\ exitCode' = 0
            /\ UNCHANGED step
    /\ UNCHANGED <<args, cwd, nrecords, fs, uncaught, stdout, ioLog, openedPath,
                   params, optState, gradEnabled, outRequiresGrad, h0, h0Allocs,
                   grads, gradNorm, epoch, optSteps, batchLog, written, seen,
                   true_acc, false_acc>>

(* for step, (sequences, tweets, labels) in enumerate(dataloader) *)
TrainFetch ==
    /\ pc = "fetch"
    /\ IF step < NumBatches(nrecords, args.batch_size)
       THEN /\ pc' = "zero_grad"
            /\ batchLog' = <<>>
       ELSE /\ pc' = "checkpoint"
            /\ UNCHANGED batchLog
    /\ UNCHANGED <<args, cwd, nrecords, fs, uncaught, exitCode, stdout, ioLog,
                   openedPath, params, optState, gradEnabled, outRequiresGrad,
                   h0, h0Allocs, grads, gradNorm, epoch, step, optSteps, written,
                   seen, true_acc, false_acc>>

(* model.zero_grad() *)
TrainZeroGradSkipped ==
    /\ pc = "zero_grad"
    /\ batchLog' = Append(batchLog, "zero_grad")
    /\ pc' = "zero_h0"
    /\ UNCHANGED <<args, cwd, nrecords, fs, uncaught, exitCode, stdout, ioLog,
                   openedPath, params, optState, gradEnabled, outRequiresGrad,
                   h0, h0Allocs, grads, gradNorm, epoch, step, optSteps, written,
                   seen, true_acc, false_acc>>

TrainZeroGrad ==
    /\ pc = "zero_grad"
    /\ grads' = {}
    /\ gradNorm' = 0
    /\ batchLog' = Append(batchLog, "zero_grad")
    /\ pc' = "zero_h0"
    /\ UNCHANGED <<args, cwd, nrecords, fs, uncaught, exitCode, stdout, ioLog,
                   openedPath, params, optState, gradEnabled, outRequiresGrad,
                   h0, h0Allocs, epoch, step, optSteps, written, seen, true_acc,
                   false_acc>>

(* h0.data.zero_() *)
TrainZeroH0Skipped ==
    /\ pc = "zero_h0"
    /\ batchLog' = Append(batchLog, "zero_h0")
    /\ pc' = "forward"
    /\ UNCHANGED <<args, cwd, nrecords, fs, uncaught, exitCode, stdout, ioLog,
                   openedPath, params, optState, gradEnabled, outRequiresGrad,
                   h0, h0Allocs, grads, gradNorm, epoch, step, optSteps, written,
                   seen, true_acc, false_acc>>

TrainZeroH0 ==
    /\ pc = "zero_h0"
    /\ h0' = "zero"
    /\ batchLog' = Append(batchLog, "zero_h0")
    /\ pc' = "forward"
    /\ UNCHANGED <<args, cwd, nrecords, fs, uncaught, exitCode, stdout, ioLog,
                   openedPath, params, optState, gradEnabled, outRequiresGrad,
                   h0Allocs, grads, gradNorm, epoch, step, optSteps, written,
                   seen, true_acc, false_acc>>

(* the batch's tensors; output = model(sequences, tweets, h0) *)
TrainForward ==
    /\ pc = "forward"
    /\ outRequiresGrad' = gradEnabled
    /\ h0' \in ForwardH0
    /\ batchLog' = Append(batchLog, "forward")
    /\ pc' = "loss"
    /\ UNCHANGED <<args, cwd, nrecords, fs, uncaught, exitCode, stdout, ioLog,
                   openedPath, params, optState, gradEnabled, h0Allocs, grads,
                   gradNorm, epoch, step, optSteps, written, seen, true_acc,
                   false_acc>>

(* loss = criterion(output, labels) *)
TrainLoss ==
    /\ pc = "loss"
    /\ batchLog' = Append(batchLog, "loss")
    /\ pc' = "backward"
    /\ UNCHANGED <<args, cwd, nrecords, fs, uncaught, exitCode, stdout, ioLog,
                   openedPath, params, optState, gradEnabled, outRequiresGrad,
                   h0, h0Allocs, grads, gradNorm, epoch, step, optSteps, written,
                   seen, true_acc, false_acc>>

(* loss.backward(): this batch's gradients are added to .grad *)
TrainBackward ==
    /\ pc = "backward"
    /\ grads' = grads \cup {<<epoch, step>>}
    /\ gradNorm' \in GradNorms
    /\ batchLog' = Append(batchLog, "backward")
    /\ pc' = "clip"
    /\ UNCHANGED <<args, cwd, nrecords, fs, uncaught, exitCode, stdout, ioLog,
                   openedPath, params, optState, gradEnabled, outRequiresGrad,
                   h0, h0Allocs, epoch, step, optSteps, written, seen, true_acc,
                   false_acc>>

(* norm = nn.utils.clip_grad_norm_(model.parameters(), max_norm=5) *)
TrainClip ==
    /\ pc = "clip"
    /\ gradNorm' = Clip(gradNorm, MAX_NORM)
    /\ batchLog' = Append(batchLog, "clip")
    /\ pc' = "opt_step"
    /\ UNCHANGED <<args, cwd, nrecords, fs, uncaught, exitCode, stdout, ioLog,
                   openedPath, params, optState, gradEnabled, outRequiresGrad,
                   h0, h0Allocs, grads, epoch, step, optSteps, written, seen,
                   true_acc, false_acc>>

(* optimizer.step(); the log line of every 30th step; next iteration *)
TrainOptStep ==
    /\ pc = "opt_step"
    /\ params' = params + 1
    /\ optState' = optState + 1
    /\ optSteps' = optSteps + 1
    /\ batchLog' = Append(batchLog, "opt_step")
    /\ step' = step + 1
    /\ pc' = "fetch"
    /\ UNCHANGED <<args, cwd, nrecords, fs, uncaught, exitCode, stdout, ioLog,
                   openedPath, gradEnabled, outRequiresGrad, h0, h0Allocs, grads,
                   gradNorm, epoch, written, seen, true_acc, false_acc>>

(* The end of the epoch body: if args.logdir is not None, the directory is
   created when absent and the checkpoint is saved; either can fail. *)
TrainCheckpoint ==
    /\ pc = "checkpoint"
    /\ IF args.logdir = None
       THEN /\ epoch' = epoch + 1
            /\ pc' = "epoch"
            /\ UNCHANGED <<fs, written, uncaught, exitCode>>
       ELSE \E ok \in BOOLEAN :
            IF ok
            THEN LET p == SavePath(args.logdir, epoch) IN
                 /\ fs' = WriteFile(fs, Checkpoint(p, epoch, params, optState))
                 /\ written' = written \cup {p}
                 /\ epoch' = epoch + 1
                 /\ pc' = "epoch"
                 /\ UNCHANGED <<uncaught, exitCode>>
            ELSE /\ Raise("OSError")
                 /\ UNCHANGED <<fs, written, epoch>>
    /\ UNCHANGED <<args, cwd, nrecords, stdout, ioLog, openedPath, params,
                   optState, gradEnabled, outRequiresGrad, h0, h0Allocs, grads,
                   gradNorm, step, optSteps, batchLog, seen, true_acc,
                   false_acc>>

(* The process is terminated from outside while train runs. *)
Abort ==
    /\ pc \in TrainLoopPcs
    /\ pc' = "aborted"
    /\ UNCHANGED <<args, cwd, nrecords, fs, uncaught, exitCode, stdout, ioLog,
                   openedPath, params, optState, gradEnabled, outRequiresGrad,
                   h0, h0Allocs, grads, gradNorm, epoch, step, optSteps,
                   batchLog, written, seen, true_acc, false_acc>>

----------------------------------------------------------------------------

Next ==
    \/ LoadData
    \/ BuildModel
    \/ LoadCheckpoint
    \/ MakeLoader
    \/ Dispatch
    \/ PredictInit
    \/ PredictBatch
    \/ PredictReport
    \/ TrainInit
    \/ TrainEpoch
    \/ TrainFetch
    \/ TrainZeroGrad
    \/ TrainZeroH0
    \/ TrainForward
    \/ TrainLoss
    \/ TrainBackward
    \/ TrainClip
    \/ TrainOptStep
    \/ TrainCheckpoint
    \/ Abort

Spec == Init /\ [][Next]_vars

----------------------------------------------------------------------------
(* Properties. *)

Ended == pc \in {"exited", "crashed"}
Training == args.test = None
Evaluating == args.test # None
BatchesPerEpoch == NumBatches(nrecords, args.batch_size)

(* C1: started with --test and without --logdir, the process ends with a
   reported usage error and a non-zero status, having loaded no data and
   opened no checkpoint, and not with an uncaught exception. *)
C1_UsageErrorBeforeLoading ==
    (Evaluating /\ args.logdir = None /\ Ended) =>
        /\ uncaught = "none"
        /\ exitCode > 0
        /\ stdout # <<>>
        /\ ioLog = <<>>
        /\ openedPath = None

(* The outcomes of the records with label t, in order: 1 where the
   prediction equalled the label, 0 where it did not. *)
RECURSIVE Outcomes(_, _)
Outcomes(pairs, t) ==
    IF pairs = <<>>
    THEN <<>>
    ELSE (IF Head(pairs)[1] = t
          THEN <<IF Head(pairs)[2] = t THEN 1 ELSE 0>>
          ELSE <<>>) \o Outcomes(Tail(pairs), t)

ExamplePairs == <<<<1, 1>>, <<1, 0>>, <<0, 1>>, <<0, 0>>>>

(* C2: after any sequence of batches the true accumulator holds, for the
   records labelled 1 in order, 1 exactly where the prediction was 1, and the
   false accumulator holds, for the records labelled 0, 1 exactly where the
   prediction was 0; labels [1,1,0,0] with predictions [1,0,1,0] give [1,0],
   [0,1] and a reported overall accuracy of 2 out of 4. *)
C2_Accounting ==
    /\ true_acc = Outcomes(seen, 1)
    /\ false_acc = Outcomes(seen, 0)
    /\ Len(true_acc) + Len(false_acc) = Len(seen)
    /\ seen = ExamplePairs =>
          /\ true_acc = <<1, 0>>
          /\ false_acc = <<0, 1>>
          /\ pc = "exited" =>
                stdout = <<[name |-> "True", sum |-> 1, len |-> 2],
                           [name |-> "False", sum |-> 1, len |-> 2],
                           [name |-> "Total", sum |-> 2, len |-> 4]>>

C2_Witness ==
    /\ pc = "exited"
    /\ seen = ExamplePairs
    /\ Len(stdout) = 3

(* C3: when the evaluation pass ends with an empty accumulator, predict does
   not end in an uncaught ZeroDivisionError. *)
C3_MissingClassReported ==
    (Evaluating /\ h0Allocs > 0 /\ Ended
        /\ (true_acc = <<>> \/ false_acc = <<>>)) =>
        uncaught = "none"

(* The file train is to write for its k-th epoch under log directory D. *)
EpochFile(D, k) ==
    LET dir == IF D.abs THEN D.parts ELSE <<"app">> \o D.parts
    IN Abs(dir \o <<ToString(k) \o ".ckpt">>)

(* C4: while train runs with a log directory, the files written are exactly
   1.ckpt .. k.ckpt for the k completed epochs, file k holding epoch index
   k-1 with the model and optimizer state of the end of that epoch, also
   after an abort in the middle of an epoch; without a log directory nothing
   is written and train ends without an error after all its epochs. *)
C4_CheckpointsAtEpochBoundaries ==
    Training =>
        /\ args.logdir # None =>
              /\ written = {EpochFile(args.logdir, k) : k \in 1 .. epoch}
              /\ \A k \in 1 .. epoch :
                    /\ Exists(fs, EpochFile(args.logdir, k))
                    /\ FileAt(fs, EpochFile(args.logdir, k)) =
                          Checkpoint(EpochFile(args.logdir, k), k - 1,
                                     k * BatchesPerEpoch, k * BatchesPerEpoch)
        /\ args.logdir = None =>
              /\ written = {}
              /\ uncaught = "none"
              /\ pc = "exited" => (exitCode = 0 /\ epoch = args.epoch)

C4_Witness ==
    /\ Training
    /\ args.logdir # None
    /\ pc = "aborted"
    /\ epoch = 1
    /\ batchLog = <<"zero_grad", "zero_h0", "forward", "loss", "backward">>
    /\ written = {EpochFile(args.logdir, 1)}

(* C5: in train the hidden-state buffer is all zero at every forward pass,
   the reset being the operation just before it, and the buffer is allocated
   once for the whole run. *)
C5_HiddenStateZeroAtForward ==
    Training =>
        /\ pc = "forward" =>
              /\ h0 = "zero"
              /\ batchLog = <<"zero_grad", "zero_h0">>
        /\ pc \in TrainLoopPcs \cup {"epoch"} => h0Allocs = 1

C5_Witness ==
    /\ Training
    /\ pc = "forward"
    /\ epoch >= 1
    /\ step >= 1
    /\ h0 = "zero"

(* C6: once predict has run a forward pass, that pass recorded no graph, no
   gradient is accumulated and the parameters are the loaded ones. *)
C6_PredictWithoutGradTracking ==
    (Evaluating /\ seen # <<>>) =>
        /\ ~outRequiresGrad
        /\ grads = {}
        /\ optSteps = 0

(* C7: a failure to create the directory or to write the checkpoint does not
   end train while epochs remain to be run. *)
C7_SaveFailureNotFatal ==
    ~(Training /\ uncaught = "OSError" /\ pc = "crashed" /\ epoch < args.epoch)

TrainReturnsAfterAllEpochs ==
    (Training /\ pc = "exited") =>
        /\ epoch = args.epoch
        /\ optSteps = args.epoch * (nrecords \div args.batch_size)

BatchOrder ==
    <<"zero_grad", "zero_h0", "forward", "loss", "backward", "clip", "opt_step">>

(* C9: the operations of every training batch follow the fixed order; the
   gradients present at a backward pass are none, those at clipping and at
   the optimizer step are the current batch's alone, the norm at the
   optimizer step is at most 5, and every earlier batch has had exactly one
   optimizer step when the next one begins. *)
C9_BatchStepOrder ==
    (Training /\ pc \in TrainLoopPcs) =>
        /\ batchLog = SubSeq(BatchOrder, 1, Len(batchLog))
        /\ pc \in {"zero_grad", "zero_h0", "forward", "loss", "backward",
                   "clip", "opt_step"} =>
              /\ Len(batchLog) < Len(BatchOrder)
              /\ pc = BatchOrder[Len(batchLog) + 1]
        /\ pc \in {"zero_h0", "forward", "loss", "backward"} => grads = {}
        /\ pc \in {"clip", "opt_step"} => grads = {<<epoch, step>>}
        /\ pc = "opt_step" => gradNorm <= 5
        /\ optSteps = epoch * BatchesPerEpoch + step

C9_Witness ==
    /\ Training
    /\ pc = "opt_step"
    /\ epoch >= 1
    /\ step >= 1
    /\ gradNorm = 5
    /\ batchLog = SubSeq(BatchOrder, 1, 6)

(* C10: when the checkpoint train writes for epoch e under --logdir D is on
   disk and load_model has been through its checkpoint step with --logdir D
   --test "<e+1>.ckpt", the path it opened is the path train wrote, the file
   was found, and its state_dict became the parameters. *)
C10_SaveLoadAgree ==
    \A e \in 0 .. MaxEpoch - 1 :
        (/\ args.logdir # None
         /\ args.test = Rel(<<ToString(e + 1) \o ".ckpt">>)
         /\ pc \notin {"load_data", "build_model", "load_checkpoint"}
         /\ Exists(fs, SavePath(args.logdir, e))) =>
            /\ openedPath = SavePath(args.logdir, e)
            /\ uncaught # "FileNotFoundError"
            /\ pc = "make_loader" =>
                  params = FileAt(fs, SavePath(args.logdir, e)).state_dict

====
